---- MODULE Spec2Model ----
(***************************************************************************)
(* Particle and graviton simulation (src/main.py).                         *)
(*                                                                         *)
(* Python floats are represented in fixed point: a real x is the integer   *)
(* x * SCALE.  random.random() is represented by a numerator r over        *)
(* RAND_DEN, 0 <= r < RAND_DEN.  Python lists are objects on a heap, so    *)
(* that two names of one list are told apart from two equal lists.         *)
(* Colours and the draw() methods change no simulation state and are left  *)
(* out.  Python indexes axes 0..1; tuples here are indexed 1..2.           *)
(***************************************************************************)
EXTENDS Integers, Sequences, FiniteSets, TLC

\* ---- bounds of the model (not program values) --------------------------
\* fixed-point units per 1.0
SCALE == 100
\* denominator of the values random.random() is drawn from
RAND_DEN == 680
\* Configuration.GRAVITON_LIFE (100 in the source), scaled down
GRAVITON_LIFE == 4
\* Configuration.GRAVITON_CREATION_COUNT (30 in the source), scaled down
GRAVITON_CREATION_COUNT == 1
\* frames of the main loop that are explored
MaxFrames == 4
\* calls made by the unit harness (SpecUnit)
MaxCalls == 4

\* ---- Configuration ------------------------------------------------------
PARTICLE_COUNT == 3
PARTICLE_SIZE == 10
PARTICLE_SPAWN_OFFSET == 10
FORCE_LIMIT == 2
GRAVITON_SIZE == 1
GRAVITON_FORCE_ADDITION_RANGE == 10
\* Configuration.GRAVITON_CREATION_COUNT as the source sets it
FULL_CREATION_COUNT == 30
\* -0.01 as numerator and denominator
GRAVITON_FORCE_APPLY_MULTIPLIER == <<-1, 100>>

Fix(n) == n * SCALE

SCREEN_RESOLUTION == <<Fix(700), Fix(700)>>

Axes == {1, 2}

Abs(x) == IF x < 0 THEN -x ELSE x

Max2(a, b) == IF a >= b THEN a ELSE b

Min2(a, b) == IF a <= b THEN a ELSE b

\* x * (m[1] / m[2]), rounded to the nearest unit (ties away from zero)
MulRat(x, m) ==
    LET n == x * m[1]
        q == (2 * Abs(n) + m[2]) \div (2 * m[2])
    IN  IF n < 0 THEN -q ELSE q

\* ---- the heap of list objects -------------------------------------------
MinOf(S) == CHOOSE a \in S : \A b \in S : a <= b

Alloc(h) == MinOf((1..(Cardinality(DOMAIN h) + 1)) \ DOMAIN h)

\* a new list object holding v
ListNew(h, v) ==
    LET a == Alloc(h) IN [heap |-> h @@ (a :> v), ref |-> a]

\* mutant of ListCopy: the list itself is handed on, not a copy
ListCopy_Alias(h, ref) == [heap |-> h, ref |-> ref]

\* list.copy(): a new list object with the same items
ListCopy(h, ref) == ListNew(h, h[ref])

\* the list objects some particle or graviton still refers to
Refs(ps, gs) ==
    {ps[n].position : n \in DOMAIN ps} \cup {ps[n].forces : n \in DOMAIN ps}
    \cup {gs[n].position : n \in DOMAIN gs} \cup {gs[n].forces : n \in DOMAIN gs}

\* unreferenced list objects are reclaimed
Collect(h, ps, gs) == [a \in (DOMAIN h \cap Refs(ps, gs)) |-> h[a]]

\* ---- Particle -----------------------------------------------------------
\* spawn_zone[lo] + random.random() * (spawn_zone[hi] - spawn_zone[lo])
SpawnCoord(lo, hi, r) == lo + (r * (hi - lo)) \div RAND_DEN

SpawnZone ==
    << Fix(PARTICLE_SPAWN_OFFSET), Fix(PARTICLE_SPAWN_OFFSET),
       SCREEN_RESOLUTION[1] - Fix(PARTICLE_SPAWN_OFFSET),
       SCREEN_RESOLUTION[2] - Fix(PARTICLE_SPAWN_OFFSET) >>

\* Particle.__init__: the position is a new list, forces is the list passed in
ParticleInit(h, forcesRef, zone, size, draw) ==
    LET pos == ListNew(h, << SpawnCoord(zone[1], zone[3], draw[1]),
                             SpawnCoord(zone[2], zone[4], draw[2]) >>)
    IN  [heap |-> pos.heap,
         obj  |-> [position |-> pos.ref, forces |-> forcesRef, size |-> size]]

\* (projected - size < 0) or (projected + size > limit)
Reflects(projected, size, limit) ==
    (projected - Fix(size) < 0) \/ (projected + Fix(size) > limit)

\* mutant of ClampForce: only the lower limit is enforced
ClampForce_LowerOnly(f) == Max2(f, -Fix(FORCE_LIMIT))

\* mutant of ClampForce: the clamp is left out
ClampForce_None(f) == f

\* max(min(f, FORCE_LIMIT), -FORCE_LIMIT)
ClampForce(f) == Max2(Min2(f, Fix(FORCE_LIMIT)), -Fix(FORCE_LIMIT))

\* mutant of UpdateAxis: the force is not negated at a wall
UpdateAxis_NoReflect(pos, f, size, limit) ==
    LET c == Max2(Min2(f, Fix(FORCE_LIMIT)), -Fix(FORCE_LIMIT))
    IN  <<pos + c, c>>

\* one axis of Particle.update: <<new position, new force>>
UpdateAxis(pos, f, size, limit) ==
    LET c  == ClampForce(f)
        f2 == IF Reflects(pos + c, size, limit) THEN -c ELSE c
    IN  <<pos + f2, f2>>

\* Particle.update(limits): the heap after the call
ParticleUpdateHeap(h, p, limits) ==
    LET x  == UpdateAxis(h[p.position][1], h[p.forces][1], p.size, limits[1])
        h1 == [h  EXCEPT ![p.forces] = <<x[2], @[2]>>]
        h2 == [h1 EXCEPT ![p.position] = <<x[1], @[2]>>]
        y  == UpdateAxis(h2[p.position][2], h2[p.forces][2], p.size, limits[2])
        h3 == [h2 EXCEPT ![p.forces] = <<@[1], y[2]>>]
    IN  [h3 EXCEPT ![p.position] = <<@[1], y[1]>>]

\* mutant of ApplyForceAxis: the force is added before the wall test
ApplyForceAxis_AddFirst(pos, f, size, force, limit) ==
    LET s == f + force
    IN  IF (pos + s - Fix(size) < 0) \/ (pos + s + Fix(size) > limit) THEN -s ELSE s

\* one axis of Particle.apply_force: the new force
ApplyForceAxis(pos, f, size, force, limit) ==
    LET f1 == IF Reflects(pos + f + force, size, limit) THEN -f ELSE f
    IN  f1 + force

\* Particle.apply_force(force, limits): the heap after the call
ParticleApplyForceHeap(h, p, force, limits) ==
    LET fx == ApplyForceAxis(h[p.position][1], h[p.forces][1], p.size, force[1], limits[1])
        h1 == [h EXCEPT ![p.forces] = <<fx, @[2]>>]
        fy == ApplyForceAxis(h1[p.position][2], h1[p.forces][2], p.size, force[2], limits[2])
    IN  [h1 EXCEPT ![p.forces] = <<@[1], fy>>]

\* ---- Graviton -----------------------------------------------------------
\* Graviton.__init__: position and forces are copies of the lists passed in.
\* id is the object's identity; born, p0, f0, cf0 record the frame, the
\* position, the forces and the creator's forces at creation (history only).
GravitonInit(h, id, creator, posRef, forcesRef, size, life, frameNo, creatorForces) ==
    LET pos == ListCopy(h, posRef)
        frc == ListCopy(pos.heap, forcesRef)
    IN  [heap |-> frc.heap,
         obj  |-> [id |-> id, creator |-> creator,
                   position |-> pos.ref, forces |-> frc.ref,
                   size |-> size, life |-> life,
                   born |-> frameNo, p0 |-> frc.heap[pos.ref],
                   f0 |-> frc.heap[frc.ref], cf0 |-> creatorForces]]

\* mutant of GravitonUpdateHeap: the graviton is reflected at the walls as a
\* particle is
GravitonUpdateHeap_Reflect(h, g, limits) ==
    LET fx == IF Reflects(h[g.position][1] + h[g.forces][1], g.size, limits[1])
              THEN -h[g.forces][1] ELSE h[g.forces][1]
        fy == IF Reflects(h[g.position][2] + h[g.forces][2], g.size, limits[2])
              THEN -h[g.forces][2] ELSE h[g.forces][2]
    IN  [h EXCEPT ![g.forces] = <<fx, fy>>,
                  ![g.position] = <<@[1] + fx, @[2] + fy>>]

\* Graviton.update(limits): position[i] += forces[i]; limits is not read
GravitonUpdateHeap(h, g, limits) ==
    LET h1 == [h EXCEPT ![g.position] = <<@[1] + h[g.forces][1], @[2]>>]
    IN  [h1 EXCEPT ![g.position] = <<@[1], @[2] + h1[g.forces][2]>>]

\* ---- main ---------------------------------------------------------------
\* mutant of NoiseOf: the range is taken as the half-width of the noise
NoiseOf_FullWidth(r) ==
    ((2 * r - RAND_DEN) * GRAVITON_FORCE_ADDITION_RANGE * SCALE) \div RAND_DEN

\* (random.random() - 0.5) * GRAVITON_FORCE_ADDITION_RANGE
NoiseOf(r) ==
    ((2 * r - RAND_DEN) * GRAVITON_FORCE_ADDITION_RANGE * SCALE) \div (2 * RAND_DEN)

\* the pairs of random.random() results a particle's position is drawn from,
\* one pair per particle
SpawnDraws ==
    { << <<0, 0>>, <<11, 0>>, <<11, 0>> >>,
      << <<11, 0>>, <<11, 0>>, <<0, 0>> >>,
      << <<679, 679>>, <<0, 340>>, <<340, 0>> >> }

\* the pairs of random.random() results a graviton's noise is drawn from
NoiseDraws == { <<0, 0>>, <<RAND_DEN \div 2, RAND_DEN \div 2>> }

\* mutant of Expired: the life test is left out
Expired_NoLifeTest(life, pos, res) ==
    \/ pos[1] < 0 \/ pos[1] > res[1]
    \/ pos[2] < 0 \/ pos[2] > res[2]

\* mutant of Expired: a position on the edge counts as outside
Expired_Inclusive(life, pos, res) ==
    \/ life <= 0
    \/ pos[1] <= 0
    \/ pos[1] >= res[1]
    \/ pos[2] <= 0
    \/ pos[2] >= res[2]

\* the life <= 0 or out-of-bounds test of the graviton phase
Expired(life, pos, res) ==
    \/ life <= 0
    \/ pos[1] < 0
    \/ pos[1] > res[1]
    \/ pos[2] < 0
    \/ pos[2] > res[2]

\* math.hypot(dx, dy) < r, for r > 0 (compared on squares, within 32 bits)
HypotLess(dx, dy, r) ==
    /\ Abs(dx) < r
    /\ Abs(dy) < r
    /\ dx * dx + dy * dy < r * r

\* mutant of IsCreator: the creator is not skipped
IsCreator_Never(n, g) == FALSE

\* particle is graviton.creator (object identity: the particle's place in the list)
IsCreator(n, g) == n = g.creator

\* distance < particle.size + graviton.size
Collides(h, p, g) ==
    HypotLess(h[g.position][1] - h[p.position][1],
              h[g.position][2] - h[p.position][2],
              Fix(p.size + g.size))

\* the particles the collision loop would hit, in list order
HitSet(h, ps, g) ==
    {n \in DOMAIN ps : ~IsCreator(n, g) /\ Collides(h, ps[n], g)}

\* mutant of FirstHit: the last particle in range is taken, not the first
FirstHit_Last(h, ps, g) ==
    IF HitSet(h, ps, g) = {} THEN 0
    ELSE CHOOSE a \in HitSet(h, ps, g) : \A b \in HitSet(h, ps, g) : a >= b

\* the particle at which the collision loop breaks, 0 when it runs through
FirstHit(h, ps, g) ==
    IF HitSet(h, ps, g) = {} THEN 0 ELSE MinOf(HitSet(h, ps, g))

\* [graviton.forces[0] * MULTIPLIER, graviton.forces[1] * MULTIPLIER]
Impulse(gf) ==
    << MulRat(gf[1], GRAVITON_FORCE_APPLY_MULTIPLIER),
       MulRat(gf[2], GRAVITON_FORCE_APPLY_MULTIPLIER) >>

\* mutant of ListRemove: nothing is taken out
ListRemove_None(gs, id) == gs

\* list.remove(graviton): the first item that is the object is taken out
RECURSIVE ListRemove(_, _)
ListRemove(gs, id) ==
    IF gs = << >> THEN << >>
    ELSE IF Head(gs).id = id THEN Tail(gs)
    ELSE <<Head(gs)>> \o ListRemove(Tail(gs), id)

\* gravitons[:]: the objects of the list, in order
Snapshot(gs) == [n \in DOMAIN gs |-> gs[n].id]

\* the graviton object with identity id
ById(gs, id) == gs[CHOOSE n \in DOMAIN gs : gs[n].id = id]

\* the values of every particle's position and forces (history only)
Values(h, ps) ==
    [n \in DOMAIN ps |-> [position |-> h[ps[n].position], forces |-> h[ps[n].forces]]]

VARIABLES
    heap,       \* list object -> its items
    particles,  \* the particles list
    gravitons,  \* the gravitons list
    running,    \* main's running flag
    pc,         \* where main is: "loop", "update", "spawn", "gravitons", "done"
    pidx,       \* the particle of the particle loop
    spawned,    \* iterations done of the range(GRAVITON_CREATION_COUNT) loop
    snapshot,   \* gravitons[:] of the graviton loop
    gidx,       \* the place in snapshot of the graviton loop
    frame,      \* iterations of the while loop started
    nextId,     \* identity of the next Graviton object
    removed,    \* history: graviton id -> the removals it went through
    ev,         \* history: the last step taken
    calls       \* calls made by the unit harness

vars == <<heap, particles, gravitons, running, pc, pidx, spawned, snapshot,
          gidx, frame, nextId, removed, ev, calls>>

NoEvent ==
    [op |-> "none", p |-> 0, g |-> 0, creator |-> 0, life |-> 0,
     gpos |-> <<0, 0>>, gforces |-> <<0, 0>>, force |-> <<0, 0>>,
     born |-> 0, p0 |-> <<0, 0>>, before |-> << >>]

\* mutant of MakeParticles: one [0, 0] list is handed to every particle
RECURSIVE MakeParticles_SharedForces(_, _, _)
MakeParticles_SharedForces(h, draws, n) ==
    IF n = 0 THEN [heap |-> h, list |-> << >>]
    ELSE LET rest == MakeParticles_SharedForces(h, draws, n - 1)
             frc  == IF n = 1 THEN ListNew(rest.heap, <<0, 0>>)
                     ELSE [heap |-> rest.heap, ref |-> rest.list[1].forces]
             made == ParticleInit(frc.heap, frc.ref, SpawnZone, PARTICLE_SIZE, draws[n])
         IN  [heap |-> made.heap, list |-> Append(rest.list, made.obj)]

\* particles = [Particle(forces=[0, 0], spawn_zone=..., size=PARTICLE_SIZE) ...]
RECURSIVE MakeParticles(_, _, _)
MakeParticles(h, draws, n) ==
    IF n = 0 THEN [heap |-> h, list |-> << >>]
    ELSE LET rest == MakeParticles(h, draws, n - 1)
             frc  == ListNew(rest.heap, <<0, 0>>)
             made == ParticleInit(frc.heap, frc.ref, SpawnZone, PARTICLE_SIZE, draws[n])
         IN  [heap |-> made.heap, list |-> Append(rest.list, made.obj)]

Init ==
    \E draws \in SpawnDraws :
        LET made == MakeParticles(<< >>, draws, PARTICLE_COUNT)
        IN  /\ heap = made.heap
            /\ particles = made.list
            /\ gravitons = << >>
            /\ running = TRUE
            /\ pc = "loop"
            /\ pidx = 0
            /\ spawned = 0
            /\ snapshot = << >>
            /\ gidx = 0
            /\ frame = 0
            /\ nextId = 1
            /\ removed = << >>
            /\ ev = NoEvent
            /\ calls = 0

\* mutant of WhileTest: while True
WhileTest_Always(r) == TRUE

\* the test of while running:
WhileTest(r) == r

\* while running: clock.tick(...); screen.fill(...); for particle in particles:
StartFrame ==
    /\ pc = "loop"
    /\ WhileTest(running)
    /\ frame < MaxFrames
    /\ frame' = frame + 1
    /\ pidx' = 1
    /\ spawned' = 0
    /\ IF Len(particles) > 0
       THEN /\ pc' = "update"
            /\ UNCHANGED <<snapshot, gidx>>
       ELSE /\ pc' = "gravitons"
            /\ snapshot' = Snapshot(gravitons)
            /\ gidx' = 1
    /\ ev' = [NoEvent EXCEPT !.op = "start"]
    /\ UNCHANGED <<heap, particles, gravitons, running, nextId, removed, calls>>

\* where main goes when the spawn loop of particle pidx is over
AfterSpawnLoop(gs) ==
    IF pidx < Len(particles)
    THEN /\ pc' = "update"
         /\ pidx' = pidx + 1
         /\ UNCHANGED <<snapshot, gidx>>
    ELSE /\ pc' = "gravitons"
         /\ pidx' = pidx
         /\ snapshot' = Snapshot(gs)
         /\ gidx' = 1

\* particle.draw(screen); particle.update(resolution), with count the value
\* of Configuration.GRAVITON_CREATION_COUNT
ParticleUpdateFor(count) ==
    /\ pc = "update"
    /\ heap' = ParticleUpdateHeap(heap, particles[pidx], SCREEN_RESOLUTION)
    /\ spawned' = 0
    /\ IF count > 0
       THEN /\ pc' = "spawn"
            /\ UNCHANGED <<pidx, snapshot, gidx>>
       ELSE AfterSpawnLoop(gravitons)
    /\ ev' = [NoEvent EXCEPT !.op = "update", !.p = pidx,
                             !.before = Values(heap, particles)]
    /\ UNCHANGED <<particles, gravitons, running, frame, nextId, removed, calls>>

ParticleUpdate == ParticleUpdateFor(GRAVITON_CREATION_COUNT)

\* mutant of SpawnLoopDone: one iteration too many
SpawnLoopDone_OffByOne(n, count) == n > count

\* the loop ends after count iterations
SpawnLoopDone(n, count) == n >= count

\* one iteration of for _ in range(GRAVITON_CREATION_COUNT), with count the
\* value of the constant and draws the pairs random.random() may return
SpawnGravitonFor(count, draws) ==
    /\ pc = "spawn"
    /\ \E draw \in draws :
        LET p    == particles[pidx]
            gpos == ListCopy(heap, p.position)
            gfrc == ListNew(gpos.heap, << heap[p.forces][1] + NoiseOf(draw[1]),
                                          heap[p.forces][2] + NoiseOf(draw[2]) >>)
            made == GravitonInit(gfrc.heap, nextId, pidx, gpos.ref, gfrc.ref,
                                 GRAVITON_SIZE, GRAVITON_LIFE, frame, heap[p.forces])
            gs   == Append(gravitons, made.obj)
        IN  /\ gravitons' = gs
            /\ heap' = Collect(made.heap, particles, gs)
            /\ removed' = Append(removed, << >>)
            /\ ev' = [NoEvent EXCEPT !.op = "spawn", !.p = pidx, !.g = nextId,
                                     !.before = Values(heap, particles)]
            /\ IF SpawnLoopDone(spawned + 1, count)
               THEN /\ spawned' = 0
                    /\ AfterSpawnLoop(gs)
               ELSE /\ spawned' = spawned + 1
                    /\ UNCHANGED <<pc, pidx, snapshot, gidx>>
    /\ nextId' = nextId + 1
    /\ UNCHANGED <<particles, running, frame, calls>>

SpawnGraviton == SpawnGravitonFor(GRAVITON_CREATION_COUNT, NoiseDraws)

\* the graviton of this iteration of for graviton in gravitons[:]
Current == ById(gravitons, snapshot[gidx])

\* the heap after graviton.update(resolution)
Moved == GravitonUpdateHeap(heap, Current, SCREEN_RESOLUTION)

\* the graviton after graviton.life -= 1
Aged == [Current EXCEPT !.life = @ - 1]

\* the gravitons list with the aged graviton in the place of the current one
Replace(gs, g) == [n \in DOMAIN gs |-> IF gs[n].id = g.id THEN g ELSE gs[n]]

GravitonEvent(op, n, force) ==
    [op |-> op, p |-> n, g |-> Aged.id, creator |-> Aged.creator,
     life |-> Aged.life, gpos |-> Moved[Aged.position],
     gforces |-> Moved[Aged.forces], force |-> force,
     born |-> Aged.born, p0 |-> Aged.p0,
     before |-> Values(heap, particles)]

InGravitonLoop == pc = "gravitons" /\ gidx <= Len(snapshot)

\* update, age, and the expiry test holds: remove and continue
GravitonExpire ==
    /\ InGravitonLoop
    /\ Expired(Aged.life, Moved[Aged.position], SCREEN_RESOLUTION)
    /\ LET gs == ListRemove(Replace(gravitons, Aged), Aged.id)
       IN  /\ gravitons' = gs
           /\ heap' = Collect(Moved, particles, gs)
    /\ removed' = [removed EXCEPT ![Aged.id] = Append(@, "expiry")]
    /\ ev' = GravitonEvent("expire", 0, <<0, 0>>)
    /\ gidx' = gidx + 1
    /\ UNCHANGED <<particles, running, pc, pidx, spawned, snapshot, frame, nextId, calls>>

\* update, age, not expired, and the collision loop finds a particle:
\* apply_force, remove, break
GravitonHit ==
    /\ InGravitonLoop
    /\ ~Expired(Aged.life, Moved[Aged.position], SCREEN_RESOLUTION)
    /\ FirstHit(Moved, particles, Aged) # 0
    /\ LET n     == FirstHit(Moved, particles, Aged)
           force == Impulse(Moved[Aged.forces])
           gs    == ListRemove(Replace(gravitons, Aged), Aged.id)
       IN  /\ gravitons' = gs
           /\ heap' = Collect(ParticleApplyForceHeap(Moved, particles[n], force,
                                                     SCREEN_RESOLUTION),
                              particles, gs)
           /\ ev' = GravitonEvent("hit", n, force)
    /\ removed' = [removed EXCEPT ![Aged.id] = Append(@, "hit")]
    /\ gidx' = gidx + 1
    /\ UNCHANGED <<particles, running, pc, pidx, spawned, snapshot, frame, nextId, calls>>

\* update, age, not expired, and the collision loop runs through
GravitonPass ==
    /\ InGravitonLoop
    /\ ~Expired(Aged.life, Moved[Aged.position], SCREEN_RESOLUTION)
    /\ FirstHit(Moved, particles, Aged) = 0
    /\ gravitons' = Replace(gravitons, Aged)
    /\ heap' = Moved
    /\ ev' = GravitonEvent("pass", 0, <<0, 0>>)
    /\ gidx' = gidx + 1
    /\ UNCHANGED <<particles, running, pc, pidx, spawned, snapshot, frame, nextId,
                   removed, calls>>

\* pygame.display.flip(); for event in pygame.event.get(): ... running = False
EndFrame ==
    /\ pc = "gravitons"
    /\ gidx > Len(snapshot)
    /\ \E quit \in BOOLEAN : running' = (running /\ ~quit)
    /\ pc' = "loop"
    /\ ev' = [NoEvent EXCEPT !.op = "end"]
    /\ UNCHANGED <<heap, particles, gravitons, pidx, spawned, snapshot, gidx, frame,
                   nextId, removed, calls>>

\* the while test fails: pygame.quit()
Quit ==
    /\ pc = "loop"
    /\ ~WhileTest(running)
    /\ pc' = "done"
    /\ ev' = [NoEvent EXCEPT !.op = "quit"]
    /\ UNCHANGED <<heap, particles, gravitons, running, pidx, spawned, snapshot, gidx,
                   frame, nextId, removed, calls>>

Next ==
    \/ StartFrame
    \/ ParticleUpdate
    \/ SpawnGraviton
    \/ GravitonExpire
    \/ GravitonHit
    \/ GravitonPass
    \/ EndFrame
    \/ Quit

Spec == Init /\ [][Next]_vars

\* ---- the loop with the creation count of the source ----------------------
\* random.random() returns 0 at every call of the spawn loops: noise -5, -5
FullDraws == { <<0, 0>> }

FullParticleUpdate == ParticleUpdateFor(FULL_CREATION_COUNT)

FullSpawnGraviton == SpawnGravitonFor(FULL_CREATION_COUNT, FullDraws)

NextFull ==
    \/ StartFrame
    \/ FullParticleUpdate
    \/ FullSpawnGraviton
    \/ GravitonExpire
    \/ GravitonHit
    \/ GravitonPass
    \/ EndFrame
    \/ Quit

SpecFull == Init /\ [][NextFull]_vars

\* ---- unit harness: arbitrary calls of Particle.update / apply_force ------
\* the force arguments the harness passes to apply_force
UnitForces ==
    { <<Fix(3), 0>>, <<-Fix(3), -Fix(3)>>, <<-1, Fix(5) \div 2>> }

\* particle.update(resolution) on some particle
UnitUpdate ==
    /\ calls < MaxCalls
    /\ \E n \in DOMAIN particles :
        /\ heap' = ParticleUpdateHeap(heap, particles[n], SCREEN_RESOLUTION)
        /\ ev' = [NoEvent EXCEPT !.op = "update", !.p = n,
                                 !.before = Values(heap, particles)]
    /\ calls' = calls + 1
    /\ UNCHANGED <<particles, gravitons, running, pc, pidx, spawned, snapshot, gidx,
                   frame, nextId, removed>>

\* particle.apply_force(force, resolution) on some particle
UnitApplyForce ==
    /\ calls < MaxCalls
    /\ \E n \in DOMAIN particles, force \in UnitForces :
        /\ heap' = ParticleApplyForceHeap(heap, particles[n], force, SCREEN_RESOLUTION)
        /\ ev' = [NoEvent EXCEPT !.op = "apply_force", !.p = n, !.force = force,
                                 !.before = Values(heap, particles)]
    /\ calls' = calls + 1
    /\ UNCHANGED <<particles, gravitons, running, pc, pidx, spawned, snapshot, gidx,
                   frame, nextId, removed>>

NextUnit ==
    \/ UnitUpdate
    \/ UnitApplyForce

SpecUnit == Init /\ [][NextUnit]_vars

\* ==== claims ==============================================================

\* the current value of particle n's position / forces
PosOf(n) == heap[particles[n].position]

ForcesOf(n) == heap[particles[n].forces]

\* C1: a particle created inside the spawn zone keeps, on both axes,
\* size <= position <= limits - size through any sequence of update and
\* apply_force calls with any force arguments.
C1_Containment ==
    \A n \in DOMAIN particles : \A a \in Axes :
        /\ PosOf(n)[a] >= PARTICLE_SIZE * SCALE
        /\ PosOf(n)[a] <= SCREEN_RESOLUTION[a] - PARTICLE_SIZE * SCALE

\* an update has just turned a particle round at a wall: with the force it
\* held (pushed there by apply_force) it would have left the arena
C1_Witness ==
    /\ ev.op = "update"
    /\ \E a \in Axes :
        LET b == ev.before[ev.p]
            c == IF b.forces[a] > 2 * SCALE THEN 2 * SCALE
                 ELSE IF b.forces[a] < -2 * SCALE THEN -2 * SCALE ELSE b.forces[a]
        IN  /\ b.forces[a] # 0
            /\ b.position[a] + c + PARTICLE_SIZE * SCALE > SCREEN_RESOLUTION[a]
            /\ PosOf(ev.p)[a] = b.position[a] - c

\* C2: right after Particle.update, |forces[axis]| <= FORCE_LIMIT on both
\* axes, whatever the forces were before the call.
C2_ClampedAfterUpdate ==
    ev.op = "update" =>
        \A a \in Axes :
            /\ ForcesOf(ev.p)[a] <= FORCE_LIMIT * SCALE
            /\ ForcesOf(ev.p)[a] >= -(FORCE_LIMIT * SCALE)

\* an update of a particle whose forces were past the limit on some axis
C2_Witness ==
    /\ ev.op = "update"
    /\ \E a \in Axes : ev.before[ev.p].forces[a] > FORCE_LIMIT * SCALE
    /\ \E a \in Axes : ev.before[ev.p].forces[a] < -(FORCE_LIMIT * SCALE)

\* forces + force, with forces negated first when position + forces + force
\* is nearer than size to a wall
C8_Expected(pos, f, size, force, limit) ==
    IF (pos + f + force - size < 0) \/ (pos + f + force + size > limit)
    THEN (-f) + force
    ELSE f + force

\* C8: apply_force reflects before adding: per axis the new force is
\* -forces + force when projected - size < 0 or projected + size > limits[axis]
\* (projected = position + forces + force) and forces + force otherwise, the
\* position is left alone; at position [5,350], size 10, apply_force([1,0])
\* negates the x-force of a particle (within the force limit) before adding 1.
C8_ReflectBeforeAdd ==
    /\ ev.op = "apply_force" =>
           /\ \A a \in Axes :
                  ForcesOf(ev.p)[a] =
                      C8_Expected(ev.before[ev.p].position[a], ev.before[ev.p].forces[a],
                                  particles[ev.p].size * SCALE, ev.force[a],
                                  SCREEN_RESOLUTION[a])
           /\ PosOf(ev.p) = ev.before[ev.p].position
    /\ \A f \in (-(FORCE_LIMIT * SCALE))..(FORCE_LIMIT * SCALE) :
           ApplyForceAxis(5 * SCALE, f, 10, 1 * SCALE, 700 * SCALE) = (-f) + 1 * SCALE

\* apply_force has just negated a non-zero force at a wall and added to it
C8_Witness ==
    /\ ev.op = "apply_force"
    /\ \E a \in Axes :
        LET b == ev.before[ev.p]
        IN  /\ b.forces[a] # 0
            /\ ev.force[a] # 0
            /\ b.position[a] + b.forces[a] + ev.force[a] - particles[ev.p].size * SCALE < 0
            /\ ForcesOf(ev.p)[a] = ev.force[a] - b.forces[a]

\* the graviton of the last step is nearer to particle n than the sum of
\* their sizes (strictly)
StepNear(n) ==
    LET dx == ev.gpos[1] - ev.before[n].position[1]
        dy == ev.gpos[2] - ev.before[n].position[2]
        r  == (particles[n].size + GRAVITON_SIZE) * SCALE
    IN  /\ dx < r /\ -dx < r /\ dy < r /\ -dy < r
        /\ dx * dx + dy * dy < r * r

\* the last step was one iteration of the graviton loop
GravitonStepped == ev.op \in {"expire", "hit", "pass"}

\* how many items of the gravitons list are the object id
Occurrences(id) == Cardinality({n \in DOMAIN gravitons : gravitons[n].id = id})

\* the graviton loop of this frame is over
GravitonPhaseOver ==
    pc \in {"loop", "done"} \/ (pc = "gravitons" /\ gidx > Len(snapshot))

\* C3: every spawned graviton is removed exactly once, by the expiry check or
\* by its first collision, never by both and never twice, and none is
\* leaked: a graviton spawned in frame b is gone when frame
\* b + GRAVITON_LIFE - 1 ends.
C3_RemovedExactlyOnce ==
    /\ DOMAIN removed = 1..(nextId - 1)
    /\ \A id \in DOMAIN removed :
        /\ removed[id] \in {<< >>, <<"expiry">>, <<"hit">>}
        /\ Occurrences(id) = (IF removed[id] = << >> THEN 1 ELSE 0)
    /\ \A n \in DOMAIN gravitons :
        /\ frame - gravitons[n].born <= GRAVITON_LIFE - 1
        /\ GravitonPhaseOver => frame - gravitons[n].born <= GRAVITON_LIFE - 2

\* a graviton inside the arena has just been removed because its life ran
\* out, and an earlier one was removed by a collision
C3_Witness ==
    /\ ev.op = "expire"
    /\ ev.life = 0
    /\ \A a \in Axes : ev.gpos[a] > 0 /\ ev.gpos[a] < SCREEN_RESOLUTION[a]
    /\ removed[ev.g] = <<"expiry">>
    /\ \E id \in DOMAIN removed : removed[id] = <<"hit">>

\* C4: a graviton never collides with its own creator: the particle hit is
\* never the creator and the creator's forces are not touched by its own
\* graviton; the exclusion is by identity, so a graviton that passes was in
\* range of no other particle, equal to the creator or not.
C4_NeverHitsCreator ==
    GravitonStepped =>
        /\ ev.p # ev.creator
        /\ ForcesOf(ev.creator) = ev.before[ev.creator].forces
        /\ ev.op = "pass" =>
               \A n \in DOMAIN particles : n = ev.creator \/ ~StepNear(n)

\* a graviton lying exactly on its creator's centre has hit another particle
\* whose position and forces equal the creator's
C4_Witness ==
    /\ ev.op = "hit"
    /\ ev.gpos = ev.before[ev.creator].position
    /\ ev.before[ev.p] = ev.before[ev.creator]

\* C5: a graviton's position and forces are lists of its own: whatever
\* happens to its creator, its forces stay as created and its position is
\* the position at creation moved once per update of its own.
C5_IndependentCopies ==
    \A n \in DOMAIN gravitons :
        LET g == gravitons[n]
        IN  /\ heap[g.forces] = g.f0
            /\ \A a \in Axes :
                   heap[g.position][a] = g.p0[a] + (GRAVITON_LIFE - g.life) * g.f0[a]
            /\ \A m \in DOMAIN particles :
                   {g.position, g.forces} \cap
                       {particles[m].position, particles[m].forces} = {}

\* a graviton is in flight whose creator has since been pushed and has moved
C5_Witness ==
    \E n \in DOMAIN gravitons :
        LET g == gravitons[n]
        IN  /\ g.life < GRAVITON_LIFE
            /\ g.f0 # <<0, 0>>
            /\ ForcesOf(g.creator) # g.cf0
            /\ \A a \in Axes : PosOf(g.creator)[a] # g.p0[a]

\* C6: the expiry check removes a graviton exactly when, after its update
\* and life decrement, life <= 0 or the position is strictly outside
\* [0, resolution] on some axis; a graviton removed so is not tested for
\* collision and pushes no particle.  A graviton at [0,0] with forces
\* [-1,-1] moves to [-1,-1] and is removed; one on the edge is not.
C6_ExpiryCheck ==
    /\ GravitonStepped =>
           /\ (ev.op = "expire") <=>
                  \/ ev.life <= 0
                  \/ \E a \in Axes : ev.gpos[a] < 0 \/ ev.gpos[a] > 700 * SCALE
           /\ ev.op = "expire" =>
                  /\ ev.p = 0
                  /\ Occurrences(ev.g) = 0
                  /\ \A n \in DOMAIN particles : ForcesOf(n) = ev.before[n].forces
    /\ LET h == (1 :> <<0, 0>>) @@ (2 :> <<-SCALE, -SCALE>>)
           m == GravitonUpdateHeap(h, [position |-> 1, forces |-> 2], SCREEN_RESOLUTION)
       IN  /\ m[1] = <<-SCALE, -SCALE>>
           /\ Expired(GRAVITON_LIFE - 1, m[1], SCREEN_RESOLUTION)
           /\ ~Expired(GRAVITON_LIFE - 1, h[1], SCREEN_RESOLUTION)
           /\ ~Expired(GRAVITON_LIFE - 1, SCREEN_RESOLUTION, SCREEN_RESOLUTION)

\* a graviton with life left has just been removed for being outside, while
\* another one that has moved onto the edge of the arena is still active
C6_Witness ==
    /\ ev.op = "expire"
    /\ ev.life > 0
    /\ \E n \in DOMAIN gravitons :
        /\ gravitons[n].life < GRAVITON_LIFE
        /\ \E a \in Axes : heap[gravitons[n].position][a] = 0

\* C7: first hit wins: a hit is on the first particle in list order, other
\* than the creator, whose centre is nearer than the sum of the sizes; that
\* particle alone receives apply_force(graviton.forces * MULTIPLIER), the
\* graviton is removed in the same step, and no graviton hits twice.
C7_FirstHitWins ==
    /\ ev.op = "hit" =>
           /\ ev.p \in DOMAIN particles
           /\ ev.p # ev.creator
           /\ StepNear(ev.p)
           /\ \A n \in 1..(ev.p - 1) : n = ev.creator \/ ~StepNear(n)
           /\ \A a \in Axes :
                  /\ 2 * (100 * ev.force[a] + ev.gforces[a]) <= 100
                  /\ 2 * (100 * ev.force[a] + ev.gforces[a]) >= -100
                  /\ ForcesOf(ev.p)[a] =
                         C8_Expected(ev.before[ev.p].position[a],
                                     ev.before[ev.p].forces[a],
                                     particles[ev.p].size * SCALE, ev.force[a],
                                     SCREEN_RESOLUTION[a])
           /\ \A n \in DOMAIN particles :
                  n # ev.p => ForcesOf(n) = ev.before[n].forces
           /\ Occurrences(ev.g) = 0
    /\ ev.op \in {"expire", "pass"} =>
           \A n \in DOMAIN particles : ForcesOf(n) = ev.before[n].forces
    /\ \A id \in DOMAIN removed :
           /\ Len(removed[id]) <= 1
           /\ removed[id] # << >> => Occurrences(id) = 0

\* a graviton in range of two particles other than its creator has pushed
\* the first of them
C7_Witness ==
    /\ ev.op = "hit"
    /\ ev.force # <<0, 0>>
    /\ ForcesOf(ev.p) # ev.before[ev.p].forces
    /\ \E m \in DOMAIN particles : m > ev.p /\ m # ev.creator /\ StepNear(m)

\* the gravitons particle n has spawned in the current frame
BornNow(n) ==
    Cardinality({m \in DOMAIN gravitons :
                    gravitons[m].born = frame /\ gravitons[m].creator = n})

\* no graviton of the current frame has been updated yet
BeforeGravitonLoop ==
    pc \in {"update", "spawn"} \/ (pc = "gravitons" /\ gidx = 1)

\* 2 * |g - f| <= GRAVITON_FORCE_ADDITION_RANGE on both axes
WithinNoise(g, f) ==
    \A a \in Axes :
        /\ 2 * (g[a] - f[a]) <= GRAVITON_FORCE_ADDITION_RANGE * SCALE
        /\ 2 * (f[a] - g[a]) <= GRAVITON_FORCE_ADDITION_RANGE * SCALE

\* C9: in every frame each particle spawns exactly GRAVITON_CREATION_COUNT
\* gravitons right after its own update and before the next particle is
\* updated; a new graviton is at the particle's post-update position and
\* its forces are within GRAVITON_FORCE_ADDITION_RANGE/2 of the particle's
\* post-update forces, so within FORCE_LIMIT + GRAVITON_FORCE_ADDITION_RANGE/2.
C9_SpawnAfterUpdate ==
    /\ pc \in {"update", "spawn"} =>
           \A n \in DOMAIN particles :
               BornNow(n) = (IF n < pidx THEN GRAVITON_CREATION_COUNT
                             ELSE IF n > pidx THEN 0
                             ELSE IF pc = "update" THEN 0 ELSE spawned)
    /\ pc = "spawn" => spawned < GRAVITON_CREATION_COUNT
    /\ (pc = "gravitons" /\ gidx = 1) =>
           \A n \in DOMAIN particles : BornNow(n) = GRAVITON_CREATION_COUNT
    /\ \A n \in DOMAIN gravitons :
           LET g == gravitons[n]
           IN  /\ g.life = GRAVITON_LIFE =>
                      /\ g.born = frame
                      /\ heap[g.position] = PosOf(g.creator)
               /\ (g.born = frame /\ BeforeGravitonLoop) =>
                      WithinNoise(heap[g.forces], ForcesOf(g.creator))
               /\ \A a \in Axes :
                      /\ 2 * heap[g.forces][a] <=
                             (2 * FORCE_LIMIT + GRAVITON_FORCE_ADDITION_RANGE) * SCALE
                      /\ 2 * heap[g.forces][a] >=
                             -((2 * FORCE_LIMIT + GRAVITON_FORCE_ADDITION_RANGE) * SCALE)

\* the particle loop of a frame is over, and a moving particle has spawned a
\* graviton whose forces differ from its own
C9_Witness ==
    /\ pc = "gravitons"
    /\ gidx = 1
    /\ \E n \in DOMAIN gravitons :
        LET g == gravitons[n]
        IN  /\ g.born = frame
            /\ ForcesOf(g.creator) # <<0, 0>>
            /\ PosOf(g.creator) = heap[g.position]
            /\ heap[g.forces] # ForcesOf(g.creator)

\* the gravitons of particle n in the list
GravitonsOf(n) == {m \in DOMAIN gravitons : gravitons[m].creator = n}

\* C10 (amended): a particle at rest has, when the particle loop of the first
\* frame is over, spawned exactly GRAVITON_CREATION_COUNT gravitons, each
\* with life = GRAVITON_LIFE and forces within the noise range of its own;
\* when that frame is over every graviton still active holds
\* life = GRAVITON_LIFE - 1.
C10_FirstFrame ==
    /\ (frame = 1 /\ pc = "gravitons" /\ gidx = 1) =>
           \A n \in DOMAIN particles :
               /\ ForcesOf(n) = <<0, 0>>
               /\ Cardinality(GravitonsOf(n)) = GRAVITON_CREATION_COUNT
               /\ \A m \in GravitonsOf(n) :
                      /\ gravitons[m].life = GRAVITON_LIFE
                      /\ WithinNoise(heap[gravitons[m].forces], ForcesOf(n))
    /\ (frame = 1 /\ pc = "loop") =>
           /\ \A m \in DOMAIN gravitons :
                  /\ gravitons[m].life = GRAVITON_LIFE - 1
                  /\ WithinNoise(heap[gravitons[m].forces], gravitons[m].cf0)
           /\ (\A id \in DOMAIN removed : removed[id] = << >>) =>
                  \A n \in DOMAIN particles :
                      Cardinality(GravitonsOf(n)) = GRAVITON_CREATION_COUNT

\* the first frame is over, no graviton was removed in it, and a particle
\* still at rest has a graviton with forces of its own
C10_Witness ==
    /\ frame = 1
    /\ pc = "loop"
    /\ \A id \in DOMAIN removed : removed[id] = << >>
    /\ \E m \in DOMAIN gravitons :
        /\ ForcesOf(gravitons[m].creator) = <<0, 0>>
        /\ heap[gravitons[m].forces] # <<0, 0>>
        /\ gravitons[m].life = GRAVITON_LIFE - 1

\* C10 as stated: after one frame the gravitons the particle has spawned,
\* GRAVITON_CREATION_COUNT of them, each hold life = GRAVITON_LIFE
C10_Original ==
    (frame = 1 /\ pc = "loop" /\ \A id \in DOMAIN removed : removed[id] = << >>) =>
        \A n \in DOMAIN particles :
            /\ Cardinality(GravitonsOf(n)) = GRAVITON_CREATION_COUNT
            /\ \A m \in GravitonsOf(n) :
                   /\ gravitons[m].life = GRAVITON_LIFE
                   /\ WithinNoise(heap[gravitons[m].forces], ForcesOf(n))

\* the values of every active graviton's position, forces and life
GravitonValues(h, gs) ==
    [n \in DOMAIN gs |-> [id |-> gs[n].id, position |-> h[gs[n].position],
                          forces |-> h[gs[n].forces], life |-> gs[n].life]]

\* C11: a quit request ends the loop only at a frame boundary: running
\* turns false only in the event poll that closes a frame, after the
\* particle phase and the graviton phase of that frame have run to their
\* end, and once it is false no frame starts and no particle or graviton
\* state changes.
C11_QuitAtFrameBoundary ==
    [][ /\ (running /\ ~running') =>
            /\ pc = "gravitons" /\ gidx > Len(snapshot)
            /\ pidx = Len(particles)
            /\ pc' = "loop"
        /\ ~running =>
            /\ ~running'
            /\ pc \in {"loop", "done"} /\ pc' = "done"
            /\ frame' = frame
            /\ Values(heap', particles') = Values(heap, particles)
            /\ GravitonValues(heap', gravitons') = GravitonValues(heap, gravitons)
      ]_vars

\* the loop was left after a request polled at the end of the second frame,
\* with gravitons still active
C11_Witness ==
    /\ pc = "done"
    /\ ~running
    /\ ev.op = "quit"
    /\ frame = 2
    /\ gravitons # << >>

\* both components of f are within FORCE_LIMIT
Clamped(f) == \A a \in Axes : Abs(f[a]) <= Fix(FORCE_LIMIT)

\* the particles whose update of this frame has run while the particle loop
\* is going on
UpdatedInParticleLoop ==
    IF pc = "update" THEN 1..(pidx - 1)
    ELSE IF pc = "spawn" THEN 1..pidx
    ELSE {}

\* C12 (as amended): forces are clamped by update and not by apply_force:
\* from a particle's update to the end of the particle loop of that frame,
\* and when the graviton loop begins, its forces are within FORCE_LIMIT on
\* both axes, and so are the forces every graviton was built from; the hits
\* of the graviton loop add their impulse with no clamp.
C12_ClampedUntilCollisions ==
    /\ \A n \in UpdatedInParticleLoop : Clamped(ForcesOf(n))
    /\ (pc = "gravitons" /\ gidx = 1) =>
           \A n \in DOMAIN particles : Clamped(ForcesOf(n))
    /\ \A k \in DOMAIN gravitons : Clamped(gravitons[k].cf0)
    /\ ev.op = "update" => Clamped(ForcesOf(ev.p))

\* an update found forces past FORCE_LIMIT, left by the hits of the frame
\* before, and brought them back to the limit
C12_Witness ==
    /\ ev.op = "update"
    /\ frame >= 2
    /\ \E a \in Axes :
        /\ ev.before[ev.p].forces[a] > Fix(FORCE_LIMIT)
        /\ ForcesOf(ev.p)[a] = Fix(FORCE_LIMIT)

\* C12 as stated: in every state of the loop every particle's forces are
\* within FORCE_LIMIT on both axes
C12_AlwaysClamped ==
    \A n \in DOMAIN particles : Clamped(ForcesOf(n))

\* the values of the active gravitons other than the object id
OtherGravitons(h, gs, id) ==
    SelectSeq(GravitonValues(h, gs), LAMBDA v : v.id # id)

\* C13: a hit changes the forces of the struck particle and removes the
\* graviton that hit, and nothing else: the struck particle's position, the
\* position and forces of every other particle (no two particles hold the
\* same forces list) and the position, forces and life of every other
\* active graviton are what they were.
C13_HitFrame ==
    [][ ev'.op = "hit" =>
          /\ particles' = particles
          /\ \A n \in DOMAIN particles :
                /\ heap'[particles[n].position] = heap[particles[n].position]
                /\ n # ev'.p => heap'[particles[n].forces] = heap[particles[n].forces]
                /\ \A k \in DOMAIN particles :
                      k # n => particles[k].forces # particles[n].forces
          /\ Len(gravitons') = Len(gravitons) - 1
          /\ \A k \in DOMAIN gravitons' : gravitons'[k].id # ev'.g
          /\ GravitonValues(heap', gravitons') =
                OtherGravitons(heap, gravitons, ev'.g)
      ]_vars

\* a hit changed the forces of the struck particle while other gravitons
\* were active
C13_Witness ==
    /\ ev.op = "hit"
    /\ ForcesOf(ev.p) # ev.before[ev.p].forces
    /\ PosOf(ev.p) = ev.before[ev.p].position
    /\ Len(gravitons) >= 2

\* how many iterations of the graviton loop have taken the active graviton g
\* so far: one in each frame since the frame it was made in, this frame's
\* counted once the loop has come to it
StepsTaken(g) ==
    IF pc \in {"update", "spawn"} THEN frame - g.born
    ELSE IF InGravitonLoop /\ (CHOOSE k \in DOMAIN snapshot : snapshot[k] = g.id) >= gidx
         THEN frame - g.born
         ELSE frame - g.born + 1

\* C14: gravitons move in a straight line and are never reflected: every
\* active graviton is updated and aged once in every frame from the frame
\* it is made in, its forces stay what they were at creation, and its
\* position is the position at creation plus (GRAVITON_LIFE - life) times
\* its forces; the graviton of each iteration of the graviton loop, kept or
\* removed, inside the arena or past its limits, is at that position too.
C14_LinearMotion ==
    /\ \A n \in DOMAIN gravitons :
        LET g == gravitons[n]
        IN  /\ g.life = GRAVITON_LIFE - StepsTaken(g)
            /\ heap[g.forces] = g.f0
            /\ \A a \in Axes :
                   heap[g.position][a] = g.p0[a] + StepsTaken(g) * heap[g.forces][a]
    /\ GravitonPhaseOver =>
           \A n \in DOMAIN gravitons :
               gravitons[n].life = GRAVITON_LIFE - (frame - gravitons[n].born + 1)
    /\ GravitonStepped =>
           /\ ev.life = GRAVITON_LIFE - (frame - ev.born + 1)
           /\ \A a \in Axes :
                  ev.gpos[a] = ev.p0[a] + (GRAVITON_LIFE - ev.life) * ev.gforces[a]

\* a graviton went on in a straight line past the limits of the arena and
\* another, made in an earlier frame, is still in flight
C14_Witness ==
    /\ ev.op = "expire"
    /\ ev.life > 0
    /\ \E a \in Axes : ev.gpos[a] < 0
    /\ ev.gforces # <<0, 0>>
    /\ \E n \in DOMAIN gravitons :
        /\ gravitons[n].life <= GRAVITON_LIFE - 2
        /\ heap[gravitons[n].forces] # <<0, 0>>

====
